---- MODULE Spec2Model ----
(***************************************************************************)
(* retwist: wait_on_shutdown (retwist/util/wait_on_shutdown.py).           *)
(*                                                                         *)
(* The state machine of the graceful-shutdown helper: the set of running   *)
(* requests kept by the wrapped request factory, the shutdown handler      *)
(* registered as a "before shutdown" trigger, its timeout callback         *)
(* (kill_timeout), its self-rescheduling drain check                       *)
(* (kill_if_requests_done), the Deferred fired by both, the Deferred of    *)
(* port.stopListening() and the DeferredList joining the two.              *)
(*                                                                         *)
(* Time is the reactor clock in whole seconds, counted from the moment     *)
(* the shutdown handler runs.  A delayed call runs when its time has come  *)
(* and before the clock advances; two calls due at the same second run in  *)
(* either order.                                                           *)
(***************************************************************************)
EXTENDS Integers, FiniteSets, Sequences, TLC

\* ---------------------------------------------------------------- bounds

\* Number of distinct values id(req) can take.
MaxReqs == 2

\* Largest timeout (seconds) handed to wait_on_shutdown.
MaxTimeout == 11

\* The clock stops advancing after this many seconds.
MaxTime == 16

\* Longest sequence of tracker calls driven by TrackerSpec.
MaxCalls == 4

\* reactor.callLater(5, kill_if_requests_done)
PollInterval == 5

Ids == 1..MaxReqs

\* ----------------------------------------------------------------- state

VARIABLES
    timeout,              \* the timeout argument of wait_on_shutdown
    now,                  \* reactor clock, seconds since the shutdown handler ran
    running_reqs,         \* the set running_reqs of request ids
    live,                 \* ids of the live requests whose notifyFinish() Deferred has not fired
    triggered,            \* the shutdown handler has run
    timeout_deferred,     \* timeout_deferred: [called]
    close_conn_deferred,  \* the Deferred returned by port.stopListening(): [called]
    deferred_list,        \* DeferredList([timeout_deferred, close_conn_deferred])
    delayed,              \* the reactor's pending delayed calls: records [time, fn]
    raised,               \* the exceptions raised so far, by class name, in order
    resolvedBy,           \* history: the callback whose timeout_deferred.callback(True) took effect
    resolvedAt,           \* history: the clock at that moment, -1 before
    firedAfter,           \* history: drain rechecks run before kill_timeout ran, -1 before it runs
    checksRun,            \* history: drain rechecks run so far (the immediate check not counted)
    atTrigger,            \* history: running_reqs when the shutdown handler ran
    pendingAtTrigger,     \* history: those of atTrigger that have not finished yet
    lastUnregAt,          \* history: the clock at the last remove_req since the handler ran, -1 if none
    newSince,             \* history: a request was created after the handler ran
    ops,                  \* history: the tracker calls made so far (TrackerSpec only)
    param,                \* a Param object, the request it is asked to parse and the outcome (ParamSpec only)
    again                 \* a second run of the shutdown handler (RetriggerSpec only)

vars == <<timeout, now, running_reqs, live, triggered, timeout_deferred,
          close_conn_deferred, deferred_list, delayed, raised, resolvedBy,
          resolvedAt, firedAfter, checksRun, atTrigger, pendingAtTrigger,
          lastUnregAt, newSince, ops, param, again>>

deferredVars == <<timeout_deferred, deferred_list, raised, resolvedBy, resolvedAt>>

historyVars == <<atTrigger, pendingAtTrigger, lastUnregAt, newSince>>

timerFired == firedAfter >= 0

\* The reactor runs until the Deferred returned by the "before shutdown"
\* trigger has fired; then it goes on to stop and runs nothing more.
reactorRunning == ~deferred_list.called

\* ----------------------------------------------------- library semantics

\* Deferred.callback(result): fires a Deferred once; a second call raises
\* AlreadyCalledError and changes nothing.
callback(d) ==
    IF d.called
    THEN [d |-> d, err |-> <<"AlreadyCalledError">>]
    ELSE [d |-> [called |-> TRUE], err |-> <<>>]

\* A DeferredList that fires on the first result (fireOnOneCallback) instead
\* of waiting for all of them.
cbDeferred_fireOnOne(dl) ==
    [finishedCount |-> dl.finishedCount + 1,
     called |-> (dl.finishedCount + 1 >= 1)]

\* DeferredList's callback on each of its Deferreds: counts the results and
\* fires when every Deferred of the list has one.
cbDeferred(dl) ==
    [finishedCount |-> dl.finishedCount + 1,
     called |-> (dl.finishedCount + 1 = 2)]

\* running_reqs.add(req_hash)
add_req(reqs, h) == reqs \cup {h}

\* remove_req that forgets the removal and leaves the id in the set.
remove_req_keeps(reqs, h) ==
    IF h \in reqs
    THEN [reqs |-> reqs, err |-> <<>>]
    ELSE [reqs |-> reqs, err |-> <<"KeyError">>]

\* remove_req: running_reqs.remove(req_hash); set.remove raises KeyError for
\* an element that is not in the set.
remove_req(reqs, h) ==
    IF h \in reqs
    THEN [reqs |-> reqs \ {h}, err |-> <<>>]
    ELSE [reqs |-> reqs, err |-> <<"KeyError">>]

\* ---------------------------------------------------------------- Init

\* No Param object under test.
NoParam == [pc |-> "idle"]

\* The shutdown handler has not run a second time.
NotAgain == [run |-> FALSE, timeout_deferred |-> [called |-> FALSE], stopListening |-> 0]


\* The reactor is running, nothing is tracked and the shutdown handler has
\* not run.
NotShutDown ==
    /\ now = 0
    /\ running_reqs = {}
    /\ live = {}
    /\ triggered = FALSE
    /\ timeout_deferred = [called |-> FALSE]
    /\ close_conn_deferred = [called |-> FALSE]
    /\ deferred_list = [finishedCount |-> 0, called |-> FALSE]
    /\ delayed = {}
    /\ raised = <<>>
    /\ resolvedBy = "none"
    /\ resolvedAt = -1
    /\ firedAfter = -1
    /\ checksRun = 0
    /\ atTrigger = {}
    /\ pendingAtTrigger = {}
    /\ lastUnregAt = -1
    /\ newSince = FALSE
    /\ ops = <<>>
    /\ again = NotAgain

Init ==
    /\ timeout \in 0..MaxTimeout
    /\ NotShutDown
    /\ param = NoParam

\* -------------------------------------------------------------- actions

\* timeout_deferred.callback(True) made by `path`, with the DeferredList's
\* callback that a first firing runs.
resolve(path) ==
    LET r == callback(timeout_deferred) IN
    /\ timeout_deferred' = r.d
    /\ raised' = raised \o r.err
    /\ deferred_list' = IF r.err = <<>> THEN cbDeferred(deferred_list) ELSE deferred_list
    /\ resolvedBy' = IF r.err = <<>> THEN path ELSE resolvedBy
    /\ resolvedAt' = IF r.err = <<>> THEN now ELSE resolvedAt

\* request_factory: the wrapped factory builds a request, whose id() differs
\* from that of every other live request; its id is added to running_reqs
\* and remove_req is attached to its notifyFinish() Deferred.
request_factory(h) ==
    /\ reactorRunning
    /\ h \notin live
    /\ live' = live \cup {h}
    /\ running_reqs' = add_req(running_reqs, h)
    /\ newSince' = (newSince \/ triggered)
    /\ UNCHANGED <<timeout, now, triggered, close_conn_deferred, delayed,
                   firedAfter, checksRun, atTrigger, pendingAtTrigger,
                   lastUnregAt, ops, param, again>>
    /\ UNCHANGED deferredVars

\* The request finishes or its connection is lost: its notifyFinish()
\* Deferred fires, once, and addBoth runs remove_req.
notifyFinish(h) ==
    /\ reactorRunning
    /\ h \in live
    /\ live' = live \ {h}
    /\ LET r == remove_req(running_reqs, h) IN
        /\ running_reqs' = r.reqs
        /\ raised' = raised \o r.err
    /\ pendingAtTrigger' = pendingAtTrigger \ {h}
    /\ lastUnregAt' = IF triggered THEN now ELSE lastUnregAt
    /\ UNCHANGED <<timeout, now, triggered, timeout_deferred, close_conn_deferred,
                   deferred_list, delayed, resolvedBy, resolvedAt, firedAfter,
                   checksRun, atTrigger, newSince, ops, param, again>>

\* kill_if_requests_done without its test: fires whatever runs.
kill_if_requests_done_noTest(pending) ==
    /\ resolve("drain")
    /\ delayed' = pending

\* kill_if_requests_done with its test inverted: fires while requests run,
\* waits when none does.
kill_if_requests_done_inverted(pending) ==
    IF running_reqs # {}
    THEN /\ resolve("drain")
         /\ delayed' = pending
    ELSE /\ delayed' = pending \cup
                {[time |-> now + PollInterval, fn |-> "kill_if_requests_done"]}
         /\ UNCHANGED deferredVars

\* kill_if_requests_done, leaving `pending` and what it schedules as the
\* reactor's delayed calls.
kill_if_requests_done(pending) ==
    IF running_reqs = {}
    THEN /\ resolve("drain")
         /\ delayed' = pending
    ELSE /\ delayed' = pending \cup
                {[time |-> now + PollInterval, fn |-> "kill_if_requests_done"]}
         /\ UNCHANGED deferredVars

\* shutdown with the drain check that fires without looking at running_reqs.
shutdown_noTest ==
    /\ reactorRunning
    /\ ~triggered
    /\ triggered' = TRUE
    /\ atTrigger' = running_reqs
    /\ pendingAtTrigger' = running_reqs
    /\ close_conn_deferred' = [called |-> FALSE]
    /\ resolve("drain")
    /\ delayed' = {[time |-> now + timeout, fn |-> "kill_timeout"]}
    /\ UNCHANGED <<timeout, now, running_reqs, live, firedAfter, checksRun,
                   lastUnregAt, newSince, ops, param, again>>

\* shutdown that leaves the first drain check to the reactor, a poll interval
\* later, instead of making it itself.
shutdown_deferredCheck ==
    /\ reactorRunning
    /\ ~triggered
    /\ triggered' = TRUE
    /\ atTrigger' = running_reqs
    /\ pendingAtTrigger' = running_reqs
    /\ close_conn_deferred' = [called |-> FALSE]
    /\ delayed' = {[time |-> now + timeout, fn |-> "kill_timeout"],
                   [time |-> now + PollInterval, fn |-> "kill_if_requests_done"]}
    /\ UNCHANGED deferredVars
    /\ UNCHANGED <<timeout, now, running_reqs, live, firedAfter, checksRun,
                   lastUnregAt, newSince, ops, param, again>>

\* shutdown scheduling kill_timeout after the poll interval instead of
\* after the timeout.
shutdown_wrongDelay ==
    /\ reactorRunning
    /\ ~triggered
    /\ triggered' = TRUE
    /\ atTrigger' = running_reqs
    /\ pendingAtTrigger' = running_reqs
    /\ close_conn_deferred' = [called |-> FALSE]
    /\ kill_if_requests_done({[time |-> now + PollInterval, fn |-> "kill_timeout"]})
    /\ UNCHANGED <<timeout, now, running_reqs, live, firedAfter, checksRun,
                   lastUnregAt, newSince, ops, param, again>>

\* shutdown: the "before shutdown" trigger, which the reactor runs once.
shutdown ==
    /\ reactorRunning
    /\ ~triggered
    /\ triggered' = TRUE
    /\ atTrigger' = running_reqs
    /\ pendingAtTrigger' = running_reqs
    /\ close_conn_deferred' = [called |-> FALSE]
    /\ kill_if_requests_done({[time |-> now + timeout, fn |-> "kill_timeout"]})
    /\ UNCHANGED <<timeout, now, running_reqs, live, firedAfter, checksRun,
                   lastUnregAt, newSince, ops, param, again>>

\* kill_timeout that also drops the running requests from the tracker.
kill_timeout_cancels ==
    /\ reactorRunning
    /\ \E c \in delayed :
        /\ c.fn = "kill_timeout"
        /\ c.time <= now
        /\ delayed' = delayed \ {c}
    /\ resolve("timeout")
    /\ firedAfter' = checksRun
    /\ running_reqs' = {}
    /\ UNCHANGED <<timeout, now, live, triggered, close_conn_deferred,
                   checksRun, ops, param, again>>
    /\ UNCHANGED historyVars

\* kill_timeout that only fires the signal when no request runs.
kill_timeout_waits ==
    /\ reactorRunning
    /\ \E c \in delayed :
        /\ c.fn = "kill_timeout"
        /\ c.time <= now
        /\ delayed' = delayed \ {c}
    /\ IF running_reqs = {} THEN resolve("timeout") ELSE UNCHANGED deferredVars
    /\ firedAfter' = checksRun
    /\ UNCHANGED <<timeout, now, running_reqs, live, triggered, close_conn_deferred,
                   checksRun, ops, param, again>>
    /\ UNCHANGED historyVars

\* kill_timeout, run by the reactor when its delayed call is due.
kill_timeout ==
    /\ reactorRunning
    /\ \E c \in delayed :
        /\ c.fn = "kill_timeout"
        /\ c.time <= now
        /\ delayed' = delayed \ {c}
    /\ resolve("timeout")
    /\ firedAfter' = checksRun
    /\ UNCHANGED <<timeout, now, running_reqs, live, triggered, close_conn_deferred,
                   checksRun, ops, param, again>>
    /\ UNCHANGED historyVars

\* A drain recheck that never schedules the next one.
recheck_once ==
    /\ reactorRunning
    /\ \E c \in delayed :
        /\ c.fn = "kill_if_requests_done"
        /\ c.time <= now
        /\ delayed' = delayed \ {c}
        /\ IF running_reqs = {} THEN resolve("drain") ELSE UNCHANGED deferredVars
    /\ checksRun' = checksRun + 1
    /\ UNCHANGED <<timeout, now, running_reqs, live, triggered, close_conn_deferred,
                   firedAfter, ops, param, again>>
    /\ UNCHANGED historyVars

\* A drain recheck, run by the reactor when its delayed call is due.
recheck ==
    /\ reactorRunning
    /\ \E c \in delayed :
        /\ c.fn = "kill_if_requests_done"
        /\ c.time <= now
        /\ kill_if_requests_done(delayed \ {c})
    /\ checksRun' = checksRun + 1
    /\ UNCHANGED <<timeout, now, running_reqs, live, triggered, close_conn_deferred,
                   firedAfter, ops, param, again>>
    /\ UNCHANGED historyVars

\* The port has stopped listening: the Deferred of stopListening() fires.
stopListeningDone ==
    /\ reactorRunning
    /\ triggered
    /\ ~close_conn_deferred.called
    /\ close_conn_deferred' = [called |-> TRUE]
    /\ deferred_list' = cbDeferred(deferred_list)
    /\ UNCHANGED <<timeout, now, running_reqs, live, triggered, timeout_deferred,
                   delayed, raised, resolvedBy, resolvedAt, firedAfter, checksRun,
                   ops, param, again>>
    /\ UNCHANGED historyVars

\* A second passes with no delayed call due.
Tick ==
    /\ reactorRunning
    /\ triggered
    /\ now < MaxTime
    /\ \A c \in delayed : c.time > now
    /\ now' = now + 1
    /\ UNCHANGED <<timeout, running_reqs, live, triggered, close_conn_deferred,
                   delayed, firedAfter, checksRun, ops, param, again>>
    /\ UNCHANGED deferredVars
    /\ UNCHANGED historyVars

Next ==
    \/ \E h \in Ids : request_factory(h)
    \/ \E h \in Ids : notifyFinish(h)
    \/ shutdown
    \/ kill_timeout
    \/ recheck
    \/ stopListeningDone
    \/ Tick

Spec == Init /\ [][Next]_vars

\* A sample of timeouts: none, shorter than, equal to and
\* longer than two poll intervals.
SampledInit ==
    /\ Init
    /\ timeout \in {0, PollInterval - 1, PollInterval, MaxTimeout}

\* The reactor runs every delayed call that is due and lets the clock
\* advance, and the port finishes stopping.
FairSpec ==
    /\ SampledInit
    /\ [][Next]_vars
    /\ WF_vars(kill_timeout)
    /\ WF_vars(recheck)
    /\ WF_vars(stopListeningDone)
    /\ WF_vars(Tick)

\* ------------------------------------------- the handler run a second time

\* What a second run of the handler leaves alone: the first run's Deferreds
\* and the tracker.
firstRunVars == <<timeout, now, running_reqs, live, triggered, timeout_deferred,
                  close_conn_deferred, deferred_list, resolvedBy, resolvedAt,
                  firedAfter, checksRun, ops, param>>

\* timeout_deferred.callback(True) on the Deferred of the second run.
resolve_again ==
    LET r == callback(again.timeout_deferred) IN
    /\ again' = [again EXCEPT !.timeout_deferred = r.d]
    /\ raised' = raised \o r.err

\* kill_if_requests_done of the second run (its own closure and Deferred).
kill_if_requests_done_again(ran, pending) ==
    IF running_reqs = {}
    THEN /\ LET r == callback(ran.timeout_deferred) IN
              /\ again' = [ran EXCEPT !.timeout_deferred = r.d]
              /\ raised' = raised \o r.err
         /\ delayed' = pending
    ELSE /\ again' = ran
         /\ raised' = raised
         /\ delayed' = pending \cup
                {[time |-> now + PollInterval, fn |-> "kill_if_requests_done (2)"]}

\* shutdown run once more while the first run is draining: the handler has
\* no guard, so it makes a new timeout_deferred, schedules its own
\* kill_timeout, calls port.stopListening() again and starts its own checks.
shutdown_again ==
    /\ reactorRunning
    /\ triggered
    /\ ~again.run
    /\ kill_if_requests_done_again(
            [run |-> TRUE,
             timeout_deferred |-> [called |-> FALSE],
             stopListening |-> again.stopListening + 1],
            delayed \cup {[time |-> now + timeout, fn |-> "kill_timeout (2)"]})
    /\ UNCHANGED firstRunVars
    /\ UNCHANGED historyVars

\* kill_timeout of the second run.
kill_timeout_again ==
    /\ reactorRunning
    /\ \E c \in delayed :
        /\ c.fn = "kill_timeout (2)"
        /\ c.time <= now
        /\ delayed' = delayed \ {c}
    /\ resolve_again
    /\ UNCHANGED firstRunVars
    /\ UNCHANGED historyVars

\* A drain recheck of the second run.
recheck_again ==
    /\ reactorRunning
    /\ \E c \in delayed :
        /\ c.fn = "kill_if_requests_done (2)"
        /\ c.time <= now
        /\ kill_if_requests_done_again(again, delayed \ {c})
    /\ UNCHANGED firstRunVars
    /\ UNCHANGED historyVars

RetriggerNext ==
    \/ Next
    \/ shutdown_again
    \/ kill_timeout_again
    \/ recheck_again

RetriggerSpec == SampledInit /\ [][RetriggerNext]_vars

\* ------------------------------------------------- the tracker on its own

\* The two operations on running_reqs applied in any order to any ids:
\* the add of request_factory and remove_req.
register(h) ==
    /\ Len(ops) < MaxCalls
    /\ running_reqs' = add_req(running_reqs, h)
    /\ ops' = Append(ops, <<"register", h>>)
    /\ UNCHANGED <<timeout, now, live, triggered, close_conn_deferred, delayed,
                   firedAfter, checksRun>>
    /\ UNCHANGED deferredVars
    /\ UNCHANGED historyVars
    /\ UNCHANGED <<param, again>>

unregister(h) ==
    /\ Len(ops) < MaxCalls
    /\ LET r == remove_req(running_reqs, h) IN
        /\ running_reqs' = r.reqs
        /\ raised' = raised \o r.err
    /\ ops' = Append(ops, <<"unregister", h>>)
    /\ UNCHANGED <<timeout, now, live, triggered, timeout_deferred,
                   close_conn_deferred, deferred_list, delayed, resolvedBy,
                   resolvedAt, firedAfter, checksRun>>
    /\ UNCHANGED historyVars
    /\ UNCHANGED <<param, again>>

TrackerNext ==
    \/ \E h \in Ids : register(h)
    \/ \E h \in Ids : unregister(h)

TrackerInit == Init /\ timeout = 0

TrackerSpec == TrackerInit /\ [][TrackerNext]_vars

\* ------------------------------------------------------ retwist/param.py

\* Longest list of values a request holds for one argument name.
MaxArgs == 2

\* A Python value: its type and its text.
PyVal(t, v) == [t |-> t, v |-> v]

PyNone == PyVal("NoneType", "None")

\* The values tried as `default`.
Defaults ==
    {PyNone, PyVal("int", "0"), PyVal("int", "1"), PyVal("str", ""),
     PyVal("str", "en"), PyVal("bool", "False"), PyVal("bool", "True")}

\* Python's truth value: None, 0, "" and False are false.
truthy(x) ==
    x \notin {PyNone, PyVal("int", "0"), PyVal("str", ""), PyVal("bool", "False")}

\* Bytes that are not valid UTF-8.
BadUtf8 == "\\xff"

\* The raw values tried for an argument of the query.
RawVals == {"true", "false", "yes", BadUtf8}

\* request.args for the name asked for: absent, or a list of raw values.
Args ==
    {[present |-> FALSE, vals |-> <<>>]} \cup
    {[present |-> TRUE, vals |-> l] :
        l \in UNION {[1..n -> RawVals] : n \in 0..MaxArgs}}

Returns(x) == [kind |-> "return", val |-> x]

Raises(cls, msg) == [kind |-> "raise", val |-> PyVal(cls, msg)]

NoOut == [kind |-> "none", val |-> PyNone]

\* twisted.web.error.Error(BAD_REQUEST, ...)
BadRequest == Raises("Error", "400")

\* val.decode(): the text of the bytes, or UnicodeDecodeError.
decode(val) ==
    IF val = BadUtf8
    THEN Raises("UnicodeDecodeError", "")
    ELSE Returns(PyVal("str", val))

\* Param.__init__
Param_init(required, default) ==
    IF required /\ truthy(default)
    THEN Raises("ValueError", "Required parameters can't have a default")
    ELSE Returns(PyNone)

\* Param.parse
Param_parse(val) == decode(val)

\* BoolParam.parse
BoolParam_parse(val) ==
    LET val_str == decode(val) IN
    IF val_str.kind = "raise" THEN val_str
    ELSE IF val_str.val.v = "false" THEN Returns(PyVal("bool", "False"))
    ELSE IF val_str.val.v = "true" THEN Returns(PyVal("bool", "True"))
    ELSE BadRequest

\* self.parse(val), by the class of self
parse(cls, val) ==
    IF cls = "BoolParam" THEN BoolParam_parse(val) ELSE Param_parse(val)

\* Param.parse_from_request
parse_from_request(p, args) ==
    IF ~args.present
    THEN IF p.default # PyNone THEN Returns(p.default)
         ELSE IF p.required THEN BadRequest
         ELSE Returns(PyNone)
    ELSE IF Len(args.vals) # 1 THEN BadRequest
    ELSE parse(p.cls, args.vals[1])

paramIdleVars == <<timeout, now, running_reqs, live, triggered, timeout_deferred,
                   close_conn_deferred, deferred_list, delayed, raised, resolvedBy,
                   resolvedAt, firedAfter, checksRun, ops, again>>

ParamInit ==
    /\ timeout = 0
    /\ NotShutDown
    /\ param \in [pc : {"new"}, cls : {"Param", "BoolParam"}, required : BOOLEAN,
                  default : Defaults, args : Args, out : {NoOut}]

\* Param(required, default) or BoolParam(required, default)
construct ==
    /\ param.pc = "new"
    /\ LET r == Param_init(param.required, param.default) IN
        param' = [param EXCEPT !.pc = IF r.kind = "raise" THEN "failed" ELSE "built",
                               !.out = r]
    /\ UNCHANGED paramIdleVars
    /\ UNCHANGED historyVars

\* param.parse_from_request(name, request)
call_parse_from_request ==
    /\ param.pc = "built"
    /\ param' = [param EXCEPT !.pc = "done",
                              !.out = parse_from_request(param, param.args)]
    /\ UNCHANGED paramIdleVars
    /\ UNCHANGED historyVars

\* param.parse(val) on the first raw value
call_parse ==
    /\ param.pc = "built"
    /\ param.args.present
    /\ Len(param.args.vals) >= 1
    /\ param' = [param EXCEPT !.pc = "parsed",
                              !.out = parse(param.cls, param.args.vals[1])]
    /\ UNCHANGED paramIdleVars
    /\ UNCHANGED historyVars

ParamNext ==
    \/ construct
    \/ call_parse_from_request
    \/ call_parse

ParamSpec == ParamInit /\ [][ParamNext]_vars

\* ------------------------------------------------------------ properties

\* C1 (as claimed): of the attempts kill_timeout and kill_if_requests_done
\* make to fire timeout_deferred, every one after the first is a silent
\* no-op: none of them raises an error.
C1_SecondResolveSilent ==
    \A i \in 1..Len(raised) : raised[i] # "AlreadyCalledError"

\* C2: the DeferredList returned by shutdown has fired exactly when both the
\* Deferred of stopListening() and timeout_deferred have fired: never before
\* the listener has stopped, never before the signal has resolved.
C2_JoinOfBoth ==
    deferred_list.called <=>
        (timeout_deferred.called /\ close_conn_deferred.called)

\* C2 witness: the signal has resolved, the listener has not stopped yet, and
\* the shutdown has not completed.
C2_Witness ==
    /\ triggered
    /\ timeout_deferred.called
    /\ ~close_conn_deferred.called
    /\ ~deferred_list.called

\* The drain checks that ran before kill_timeout did (all of them while it
\* has not run); check 0 is the one made by shutdown itself.
ChecksBeforeTimer == 0..(IF timerFired THEN firedAfter ELSE checksRun)

\* C3 (as claimed): when no request is created after the trigger and all the
\* requests in flight at the trigger have finished strictly before `timeout`
\* seconds, kill_timeout finds the signal already resolved by the drain path.
C3_DrainedBeforeTimeout ==
    (/\ triggered
     /\ ~newSince
     /\ pendingAtTrigger = {}
     /\ lastUnregAt < timeout
     /\ timerFired)
    => resolvedBy = "drain"

\* C3 (amended): when the requests in flight at the trigger have all
\* finished and the tracker has been empty since strictly before one of the
\* drain checks that run before kill_timeout (the check at the trigger, then
\* one every PollInterval seconds), the signal is resolved by the drain path,
\* and the shutdown is complete as soon as the listener has stopped.
C3_DrainedBeforeCheck ==
    (/\ triggered
     /\ running_reqs = {}
     /\ pendingAtTrigger = {}
     /\ \E k \in ChecksBeforeTimer : lastUnregAt < PollInterval * k)
    => /\ resolvedBy = "drain"
       /\ close_conn_deferred.called => deferred_list.called

\* C3 witness: requests were in flight at the trigger, they finished, a
\* recheck resolved the signal and the listener stopped: shutdown complete.
C3_Witness ==
    /\ triggered
    /\ ~newSince
    /\ atTrigger # {}
    /\ pendingAtTrigger = {}
    /\ running_reqs = {}
    /\ checksRun >= 1
    /\ lastUnregAt < PollInterval * checksRun
    /\ resolvedBy = "drain"
    /\ deferred_list.called

\* C4: when requests are in flight at the trigger and no request has
\* unregistered since, the signal is resolved exactly when kill_timeout has
\* run, by the timeout path, `timeout` seconds after the trigger, whatever
\* number of rechecks ran before.
C4_ForcedAtTimeout ==
    (/\ triggered
     /\ atTrigger # {}
     /\ lastUnregAt = -1)
    => /\ timeout_deferred.called <=> timerFired
       /\ timerFired => (resolvedBy = "timeout" /\ resolvedAt = timeout)
       /\ ~timerFired => now <= timeout

\* C4 witness: the timeout fired after two rechecks found requests running.
C4_Witness ==
    /\ triggered
    /\ atTrigger # {}
    /\ lastUnregAt = -1
    /\ timerFired
    /\ firedAfter >= 2
    /\ resolvedBy = "timeout"

\* C5 (as claimed): once the signal has resolved no drain recheck runs any
\* more (and so none is scheduled).
C5_PollStopsOnceResolved ==
    [][timeout_deferred.called => checksRun' = checksRun]_vars

\* C6 (as claimed): remove_req for an id that is not in running_reqs raises
\* no error (and leaves the set as it is).
C6_UnregisterAbsentSilent ==
    \A i \in 1..Len(raised) : raised[i] # "KeyError"

\* C7 (as claimed): adding an id that is already in running_reqs is reported
\* as an error.
C7_RegisterPresentFails ==
    [][\A h \in Ids :
          (h \in running_reqs /\ ops' = Append(ops, <<"register", h>>))
              => Len(raised') > Len(raised)]_vars

\* The step in which kill_timeout runs.
TimerFires == ~timerFired /\ timerFired'

\* C8 (as claimed): with timeout = 0 and requests in flight at the trigger,
\* kill_timeout runs before the clock advances and before any recheck, it
\* resolves the signal, and the requests in flight at the trigger are all in
\* running_reqs at that moment.
C8_ZeroTimeoutAllStillTracked ==
    [][(timeout = 0 /\ atTrigger # {} /\ TimerFires)
          => /\ now = 0
             /\ checksRun = 0
             /\ resolvedBy' = "timeout"
             /\ atTrigger \subseteq running_reqs']_vars

\* C8 (amended): with timeout = 0 and requests in flight at the trigger,
\* kill_timeout runs before the clock advances and before any recheck, it
\* resolves the signal, and every request in flight at the trigger that has
\* not finished by itself in between is in running_reqs at that moment.
C8_ZeroTimeout ==
    /\ [](timeout = 0 /\ triggered /\ atTrigger # {} /\ (now > 0 \/ checksRun > 0)
            => timerFired)
    /\ [][(timeout = 0 /\ atTrigger # {} /\ TimerFires)
            => /\ now = 0
               /\ checksRun = 0
               /\ resolvedBy' = "timeout"
               /\ pendingAtTrigger \subseteq running_reqs']_vars

\* C8 witness: timeout 0, the timer has resolved the signal with a request of
\* the trigger still tracked and no recheck run.
C8_Witness ==
    /\ timeout = 0
    /\ atTrigger # {}
    /\ timerFired
    /\ resolvedBy = "timeout"
    /\ checksRun = 0
    /\ pendingAtTrigger # {}
    /\ pendingAtTrigger \subseteq running_reqs

C10_DrainWithinPollInterval ==
    triggered =>
       /\ (resolvedBy = "drain" /\ lastUnregAt = -1) => resolvedAt = 0
       /\ (resolvedBy = "drain" /\ 0 <= lastUnregAt /\ lastUnregAt <= resolvedAt)
              => resolvedAt - lastUnregAt <= PollInterval
       /\ (~timerFired /\ ~timeout_deferred.called /\ running_reqs = {})
              => /\ lastUnregAt >= 0
                 /\ \E c \in delayed :
                      /\ c.fn = "kill_if_requests_done"
                      /\ c.time <= lastUnregAt + PollInterval

\* C10 witness: the last request unregistered right after a check, and the
\* next recheck, a full PollInterval later, resolved the signal.
C10_Witness ==
    /\ triggered
    /\ ~timerFired
    /\ atTrigger # {}
    /\ resolvedBy = "drain"
    /\ lastUnregAt >= 0
    /\ resolvedAt = lastUnregAt + PollInterval

\* C11 (as claimed): once the shutdown handler has called stopListening no
\* request is added to running_reqs: the set only shrinks.
C11_NoRegisterAfterStop ==
    [][triggered => running_reqs' \subseteq running_reqs]_vars

\* The step in which timeout_deferred fires.
Resolves == ~timeout_deferred.called /\ timeout_deferred.called'

\* C12 (as claimed): the signal is resolved by the drain path exactly when
\* running_reqs is empty at that moment, and by the timeout path exactly when
\* kill_timeout runs with a request in running_reqs.
C12_OutcomeMatchesTracker ==
    [][Resolves =>
          /\ resolvedBy' = "drain" <=> running_reqs = {}
          /\ resolvedBy' = "timeout" <=> (TimerFires /\ running_reqs # {})]_vars

\* C12 (amended): the signal is resolved by the drain path only with
\* running_reqs empty at that moment, and by the timeout path exactly when
\* kill_timeout runs first; running_reqs may be empty then, the last request
\* having unregistered since the latest drain check.
C12_OutcomeByPath ==
    [][Resolves =>
          /\ resolvedBy' \in {"drain", "timeout"}
          /\ resolvedBy' = "drain" => (running_reqs = {} /\ ~TimerFires)
          /\ resolvedBy' = "timeout" <=> TimerFires
          /\ (resolvedBy' = "timeout" /\ running_reqs = {})
                => lastUnregAt >= PollInterval * checksRun]_vars

\* C12 witness: the timeout path resolved the signal with running_reqs
\* empty: the only request had unregistered a second earlier.
C12_Witness ==
    /\ resolvedBy = "timeout"
    /\ ~newSince
    /\ atTrigger # {}
    /\ running_reqs = {}
    /\ 0 <= lastUnregAt
    /\ lastUnregAt < resolvedAt

\* C13: while a request that was in flight at the trigger has not
\* unregistered, the drain path has not resolved the signal; once the signal
\* is resolved, it is by kill_timeout.
C13_LeakForcesTimeout ==
    pendingAtTrigger # {} =>
        /\ resolvedBy # "drain"
        /\ timeout_deferred.called => (resolvedBy = "timeout" /\ timerFired)

\* C13 witness: one request of the trigger never unregistered, another did,
\* rechecks ran, and kill_timeout resolved the signal.
C13_Witness ==
    /\ pendingAtTrigger # {}
    /\ pendingAtTrigger # atTrigger
    /\ checksRun >= 1
    /\ resolvedBy = "timeout"

\* C14: running_reqs holds exactly the ids of the requests built by
\* request_factory whose finish notification has not fired, and no removal
\* ever failed.
C14_TrackerIsLive ==
    /\ running_reqs = live
    /\ \A i \in 1..Len(raised) : raised[i] # "KeyError"

\* C14 witness: a request has finished and been removed while another one is
\* still tracked.
C14_Witness ==
    /\ triggered
    /\ lastUnregAt >= 0
    /\ running_reqs # {}
    /\ running_reqs = live

\* The step in which the shutdown handler runs.
Triggers == ~triggered /\ triggered'

\* The drain rechecks among the delayed calls.
Rechecks(calls) == {c \in calls : c.fn = "kill_if_requests_done"}

\* C17: the shutdown handler, run with running_reqs empty, resolves the
\* signal by the drain path within its own step, before kill_timeout can
\* run, and schedules no recheck; run with running_reqs not empty, it leaves
\* the signal unresolved and schedules exactly one recheck, PollInterval
\* seconds later.
C17_ImmediateCheck ==
    [][Triggers =>
          IF running_reqs = {}
          THEN /\ timeout_deferred.called'
               /\ resolvedBy' = "drain"
               /\ resolvedAt' = now
               /\ ~timerFired'
               /\ Rechecks(delayed') = {}
          ELSE /\ ~timeout_deferred.called'
               /\ Rechecks(delayed') =
                    {[time |-> now + PollInterval, fn |-> "kill_if_requests_done"]}]_vars

\* C17 witness: the handler ran with no request in flight; the signal is
\* resolved by the drain path, kill_timeout has not run, no recheck pends.
C17_Witness ==
    /\ triggered
    /\ atTrigger = {}
    /\ resolvedBy = "drain"
    /\ resolvedAt = 0
    /\ ~timerFired
    /\ Rechecks(delayed) = {}

\* C19: with the reactor running its delayed calls and the port finishing to
\* stop, every run of the shutdown handler is followed by the DeferredList
\* firing, whatever the requests do.
C19_ShutdownCompletes ==
    triggered ~> deferred_list.called

\* C19 witness: the shutdown completed although no request in flight at the
\* trigger ever finished.
C19_Witness ==
    /\ deferred_list.called
    /\ atTrigger # {}
    /\ pendingAtTrigger = atTrigger
    /\ lastUnregAt = -1

\* C18 (as claimed): a second run of the shutdown handler is ignored: it
\* schedules no second kill_timeout, calls stopListening no second time and
\* starts no second series of drain checks.
C18_SecondTriggerIgnored ==
    [][(~again.run /\ again.run') =>
          /\ delayed' = delayed
          /\ again'.stopListening = again.stopListening
          /\ again'.timeout_deferred = again.timeout_deferred]_vars

\* C15 (as claimed): a Param built with required=True, asked for a name that
\* is missing from the request, raises the 400 error, whatever default it
\* was built with.
C15_RequiredMissingRaises ==
    (param.pc = "done" /\ param.required /\ ~param.args.present)
        => param.out = BadRequest

\* C16 (as claimed): BoolParam.parse returns True for "true" and False for
\* every other value.
C16_BoolTrueElseFalse ==
    (param.pc = "parsed" /\ param.cls = "BoolParam")
        => param.out =
             Returns(PyVal("bool",
                 IF param.args.vals[1] = "true" THEN "True" ELSE "False"))

====
